---- MODULE Spec2Model ----
(***************************************************************************)
(* Edit Helper plugin (src/main.ts).  The file holds the plugin at its     *)
(* successive versions; the idle scheduler exists in 0.1.1 (lines 11-197)  *)
(* and 0.1.2 (lines 445-667).  Times are in milliseconds.                  *)
(***************************************************************************)
EXTENDS Integers, Sequences, FiniteSets, TLC

\* ------------------------------------------------------------- constants
DEBOUNCE_DELAY_MS == 500
IDLE_TIMEOUT_MS == 10000
DEFAULT_IDLE_TIMEOUT_MS == 60000
SLIDER_MIN == 0
SLIDER_MAX == 60000
SLIDER_STEP == 1000
\* idleTimeout: number | null = null; null and 0 are both falsy in JS
Null == 0

\* ---------------------------------------------------------------- bounds
\* slider positions the user moves to: SLIDER_MIN + k * SLIDER_STEP, k <= MaxSliderStops
MaxSliderStops == 2
\* how many quanta a due timer callback can be kept waiting by the event loop
MaxLate == 1
\* saveSettings() calls that can be in flight at once
MaxSaves == 1
\* timer handles that are told apart (handles are compared for equality only)
MaxHandles == 3

\* the longest line the editor commands are run on
MaxLen == 4

\* the grain of time: signals can be spaced closer than the coalescing delay
Quantum == DEBOUNCE_DELAY_MS \div 2

Versions == {"0.1.1", "0.1.2"}
Handles == 1..MaxHandles

\* ------------------------------------------------------------- JS values
Num(n) == [t |-> "number", n |-> n]
JsNull == [t |-> "null", n |-> 0]
JsStr == [t |-> "string", n |-> 0]
Undefined == [t |-> "undefined", n |-> 0]

\* v > 0 in JS: null > 0, undefined > 0 and "abc" > 0 are all false
GtZero(v) == v.t = "number" /\ v.n > 0

\* what loadData() can return: nothing stored, an object without the field,
\* or an object with the field holding a stored value
StoredValues == {Num(SLIDER_MIN), Num(SLIDER_STEP), Num(0 - SLIDER_STEP), JsNull, JsStr}
PersistedData ==
    {[stored |-> FALSE, has |-> FALSE, v |-> Undefined],
     [stored |-> TRUE, has |-> FALSE, v |-> Undefined]}
    \cup {[stored |-> TRUE, has |-> TRUE, v |-> x] : x \in StoredValues}

SliderValues ==
    {SLIDER_MIN + k * SLIDER_STEP : k \in 0..MaxSliderStops}
    \cap SLIDER_MIN..SLIDER_MAX

VARIABLES
    version,            \* which version of the plugin class is running
    phase,              \* "constructed", "loaded", "unloaded"
    settings,           \* settings.idleTimeoutMs (0.1.2)
    saving,             \* slider onChange handlers suspended at await saveSettings()
    autoCenterEnabled,
    idleTimeout,        \* handle of the idle timer, or Null
    timers,             \* window timers of the plugin: handle -> [delay, elapsed]
    debounce,           \* the debounced resetIdleTimer: [pending, elapsed, calls]
    last,               \* history: the step just taken, see Step
    cancelled,          \* history: the last resetIdleTimer or onunload cancelled a pending timer
    quietFor,           \* history: ms since the last activity signal, counted no further
                        \* than the time a pending idle timer has been counting down
    resetAge,           \* history: ms since the last resetIdleTimer call (counted up to armedDelay)
    armedDelay,         \* history: timeout in force at the last resetIdleTimer call (0: none)
    fires,              \* history: callback runs since the last resetIdleTimer call (up to 2)
    invokeAge,          \* history: ms since the debounced function last called resetIdleTimer
                        \* (counted up to DEBOUNCE_DELAY_MS)
    firedSince,         \* history: the callback has run since the last activity signal
    editor,             \* the active editor: [doc, anchor, head]
    cmd,                \* history: the editor command just run
    before              \* history: the editor as that command found it

idleVars == <<version, phase, settings, saving, autoCenterEnabled, idleTimeout, timers,
              debounce, last, cancelled, quietFor, resetAge, armedDelay, fires, invokeAge,
              firedSince>>
edVars == <<editor, cmd, before>>
vars == <<idleVars, edVars>>

\* the record of a step: its name, whether it called resetIdleTimer, the delay
\* of the timer whose callback it ran, and for a call made by the debounced
\* function the signals it stands for and the time since the previous such call
Step(op, reset) == [op |-> op, resetRan |-> reset, firedDelay |-> 0, served |-> 0, gap |-> 0]

\* ------------------------------------------------------------ host timers
Min(a, b) == IF a < b THEN a ELSE b
Max(a, b) == IF a > b THEN a ELSE b

\* window.clearTimeout(h): a handle that is not pending is ignored
ClearTimeout(T, h) == [x \in (DOMAIN T) \ {h} |-> T[x]]

\* window.setTimeout(cb, delay) returning handle h
SetTimeout(T, h, delay) ==
    [x \in (DOMAIN T) \cup {h} |-> IF x = h THEN [delay |-> delay, elapsed |-> 0] ELSE T[x]]

\* the browser never returns a handle that is still pending; a handle still
\* referenced by idleTimeout is not reused either
FreshHandle(T, held) == CHOOSE h \in Handles : h \notin DOMAIN T /\ h # held
HandleFree(T, held) == \E h \in Handles : h \notin DOMAIN T /\ h # held

Due(t) == t.elapsed >= t.delay
Pending == DOMAIN timers

\* the longest time a pending idle timer has been counting down (0: none pending)
LongestElapsed(T) ==
    IF DOMAIN T = {} THEN 0
    ELSE LET h == CHOOSE x \in DOMAIN T : \A y \in DOMAIN T : T[y].elapsed <= T[x].elapsed
         IN T[h].elapsed

\* ------------------------------------------------------- resetIdleTimer
\* variant: the coalescing delay is handed to setTimeout
TimeoutMsDebounce(ver, setting) == DEBOUNCE_DELAY_MS

\* the delay handed to setTimeout
TimeoutMs(ver, setting) == IF ver = "0.1.1" THEN IDLE_TIMEOUT_MS ELSE setting.n

\* variant: the enabled flag is not consulted
ShouldArmIgnoringFlag(ver, enabled, setting) ==
    IF ver = "0.1.1" THEN TRUE ELSE GtZero(setting)

\* the condition under which a new timer is set
ShouldArm(ver, enabled, setting) ==
    IF ver = "0.1.1" THEN enabled ELSE enabled /\ GtZero(setting)

\* variant: the previous timer is not cleared before a new one is set
ResetIdleTimerNoClear(ver, enabled, setting, idle, T) ==
    IF ShouldArm(ver, enabled, setting)
    THEN LET h == FreshHandle(T, idle)
         IN [idleTimeout |-> h, timers |-> SetTimeout(T, h, TimeoutMs(ver, setting))]
    ELSE [idleTimeout |-> Null, timers |-> IF idle # Null THEN ClearTimeout(T, idle) ELSE T]

\* variant: the else branch that nulls idleTimeout is missing
ResetIdleTimerKeepHandle(ver, enabled, setting, idle, T) ==
    LET cleared == IF idle # Null THEN ClearTimeout(T, idle) ELSE T
    IN IF ShouldArm(ver, enabled, setting)
       THEN LET h == FreshHandle(cleared, idle)
            IN [idleTimeout |-> h, timers |-> SetTimeout(cleared, h, TimeoutMs(ver, setting))]
       ELSE [idleTimeout |-> idle, timers |-> cleared]

\* resetIdleTimer: the new idleTimeout and the timers left pending
ResetIdleTimer(ver, enabled, setting, idle, T) ==
    LET cleared == IF idle # Null THEN ClearTimeout(T, idle) ELSE T
    IN IF ShouldArm(ver, enabled, setting)
       THEN LET h == FreshHandle(cleared, idle)
            IN [idleTimeout |-> h, timers |-> SetTimeout(cleared, h, TimeoutMs(ver, setting))]
       ELSE [idleTimeout |-> Null, timers |-> cleared]

\* loadSettings: Object.assign({}, DEFAULT_SETTINGS, await this.loadData())
LoadSettings(data) ==
    IF data.stored /\ data.has THEN data.v ELSE Num(DEFAULT_IDLE_TIMEOUT_MS)

\* ================================================================ editor
\* A line is a sequence of characters; lines and columns count from 0.
\* "\t" stands for the whitespace characters other than the space
Chars == {"#", "-", "*", "1", ".", " ", "\t", "a"}
Lines == UNION {[1..n -> Chars] : n \in 0..MaxLen}

\* \s of the regular expression and the characters String.trim() strips
SpaceChars == {" ", "\t"}
IsSpace(c) == c \in SpaceChars
\* \d, # and [-*] and \. of the regular expression
DigitChars == {"1"}
HashChars == {"#"}
BulletChars == {"-", "*"}
DotChars == {"."}

\* s.substring(0, n)
Prefix(s, n) == SubSeq(s, 1, n)

\* the number of characters at the start of s, from position i + 1 on, that
\* are in the class: what a greedy  class*  consumes
Run(s, i, class) ==
    IF i >= Len(s) THEN 0
    ELSE CHOOSE k \in 0..(Len(s) - i) :
            /\ \A j \in 1..k : s[i + j] \in class
            /\ k = Len(s) - i \/ s[i + k + 1] \notin class

\* the character at position i + 1 exists and is in the class
CharIs(s, i, class) == i < Len(s) /\ s[i + 1] \in class

\* variant: the pattern without its leading \s*
MatchLengthNoIndent(s) ==
    LET ws == 0
        hashes == Run(s, ws, HashChars)
        digits == Run(s, ws, DigitChars)
    IN IF hashes >= 1 /\ CharIs(s, ws + hashes, SpaceChars) THEN ws + hashes + 1
       ELSE IF CharIs(s, ws, BulletChars) /\ CharIs(s, ws + 1, SpaceChars) THEN ws + 2
       ELSE IF digits >= 1 /\ CharIs(s, ws + digits, DotChars)
                          /\ CharIs(s, ws + digits + 1, SpaceChars) THEN ws + digits + 2
       ELSE 0 - 1

\* lineContent.match(/^\s*(#+\s|[-*]\s|\d+\.\s)/): the length of match[0],
\* or -1 for null.  Giving back characters of a greedy run cannot help any
\* alternative, since each run is followed by a character outside its class.
MatchLength(s) ==
    LET ws == Run(s, 0, SpaceChars)
        hashes == Run(s, ws, HashChars)
        digits == Run(s, ws, DigitChars)
    IN IF hashes >= 1 /\ CharIs(s, ws + hashes, SpaceChars) THEN ws + hashes + 1
       ELSE IF CharIs(s, ws, BulletChars) /\ CharIs(s, ws + 1, SpaceChars) THEN ws + 2
       ELSE IF digits >= 1 /\ CharIs(s, ws + digits, DotChars)
                          /\ CharIs(s, ws + digits + 1, SpaceChars) THEN ws + digits + 2
       ELSE 0 - 1

\* markerMatch: found is the truthiness of the match, marker is markerMatch[0]
MarkerMatch(s) ==
    LET n == MatchLength(s)
    IN IF n >= 0 THEN [found |-> TRUE, marker |-> Prefix(s, n)]
       ELSE [found |-> FALSE, marker |-> << >>]

\* String.prototype.trim()
RECURSIVE TrimStart(_)
TrimStart(s) == IF s # << >> /\ IsSpace(Head(s)) THEN TrimStart(Tail(s)) ELSE s
RECURSIVE TrimEnd(_)
TrimEnd(s) ==
    IF s # << >> /\ IsSpace(s[Len(s)]) THEN TrimEnd(SubSeq(s, 1, Len(s) - 1)) ELSE s
Trim(s) == TrimEnd(TrimStart(s))

\* --------------------------------------------------- host editor (Editor)
Pos(line, ch) == [line |-> line, ch |-> ch]
\* a before b in document order
PosLess(a, b) == a.line < b.line \/ (a.line = b.line /\ a.ch < b.ch)

\* editor.getCursor(): the head of the selection
GetCursor(ed) == ed.head
\* editor.getCursor('to'): the end of the selection
GetCursorTo(ed) == IF PosLess(ed.head, ed.anchor) THEN ed.anchor ELSE ed.head
\* editor.getLine(n)
GetLine(ed, n) == ed.doc[n + 1]
\* editor.somethingSelected()
SomethingSelected(ed) == ed.anchor # ed.head
\* a position kept inside the document
Clip(doc, p) ==
    IF p.ch > Len(doc[p.line + 1]) THEN Pos(p.line, Len(doc[p.line + 1])) ELSE p
\* editor.setLine(n, text): positions on the line stay inside it
SetLine(ed, n, text) ==
    LET doc == [ed.doc EXCEPT ![n + 1] = text]
    IN [doc |-> doc, anchor |-> Clip(doc, ed.anchor), head |-> Clip(doc, ed.head)]
\* editor.setCursor(pos)
SetCursor(ed, p) == [ed EXCEPT !.anchor = Clip(ed.doc, p), !.head = Clip(ed.doc, p)]
\* editor.setSelection(from, to)
SetSelection(ed, from, to) ==
    [ed EXCEPT !.anchor = Clip(ed.doc, from), !.head = Clip(ed.doc, to)]

\* -------------------------------------------------------------- commands
\* variant: the cursor is put at column 0 when the marker is kept
EmptyExceptMarkerCursorAtStart(ed) ==
    LET currentLineNumber == GetCursor(ed).line
        lineContent == GetLine(ed, currentLineNumber)
        markerMatch == MarkerMatch(lineContent)
    IN IF markerMatch.found
       THEN IF Trim(lineContent) = Trim(markerMatch.marker)
            THEN ed
            ELSE SetCursor(SetLine(ed, currentLineNumber, markerMatch.marker),
                           Pos(currentLineNumber, 0))
       ELSE SetCursor(SetLine(ed, currentLineNumber, << >>), Pos(currentLineNumber, 0))

\* variant: a line that is just its marker is rewritten like any other
EmptyExceptMarkerAlways(ed) ==
    LET currentLineNumber == GetCursor(ed).line
        lineContent == GetLine(ed, currentLineNumber)
        markerMatch == MarkerMatch(lineContent)
    IN IF markerMatch.found
       THEN SetCursor(SetLine(ed, currentLineNumber, markerMatch.marker),
                      Pos(currentLineNumber, Len(markerMatch.marker)))
       ELSE SetCursor(SetLine(ed, currentLineNumber, << >>), Pos(currentLineNumber, 0))

\* empty-current-line-content-except-marker
EmptyExceptMarker(ed) ==
    LET currentLineNumber == GetCursor(ed).line
        lineContent == GetLine(ed, currentLineNumber)
        markerMatch == MarkerMatch(lineContent)
    IN IF markerMatch.found
       THEN IF Trim(lineContent) = Trim(markerMatch.marker)
            THEN ed
            ELSE SetCursor(SetLine(ed, currentLineNumber, markerMatch.marker),
                           Pos(currentLineNumber, Len(markerMatch.marker)))
       ELSE SetCursor(SetLine(ed, currentLineNumber, << >>), Pos(currentLineNumber, 0))

\* clear-current-line-for-new-format
ClearLine(ed) ==
    LET currentLineNumber == GetCursor(ed).line
    IN SetCursor(SetLine(ed, currentLineNumber, << >>), Pos(currentLineNumber, 0))

\* variant: the selection starts at column 0 whatever the line begins with
SelectOrCancelWholeLine(ed) ==
    IF SomethingSelected(ed)
    THEN SetCursor(ed, GetCursorTo(ed))
    ELSE LET currentLine == GetCursor(ed).line
             lineContent == GetLine(ed, currentLine)
         IN SetSelection(ed, Pos(currentLine, 0), Pos(currentLine, Len(lineContent)))

\* select-current-line-or-cancel
SelectOrCancel(ed) ==
    IF SomethingSelected(ed)
    THEN SetCursor(ed, GetCursorTo(ed))
    ELSE LET currentLine == GetCursor(ed).line
             lineContent == GetLine(ed, currentLine)
             markerMatch == MarkerMatch(lineContent)
             startCh == IF markerMatch.found THEN Len(markerMatch.marker) ELSE 0
         IN SetSelection(ed, Pos(currentLine, startCh), Pos(currentLine, Len(lineContent)))

\* the timeout a reset is asked to count down: 0 when none is to be armed
RequestedTimeout(enabled, setting) ==
    IF ~enabled THEN 0
    ELSE IF version = "0.1.1" THEN IDLE_TIMEOUT_MS
    ELSE IF GtZero(setting) THEN setting.n ELSE 0

\* a step that calls resetIdleTimer with the given flag and setting; quiet is
\* the time since the last activity signal, the step itself included
CallReset(enabled, setting, quiet) ==
    /\ HandleFree(timers, idleTimeout)
    /\ LET r == ResetIdleTimer(version, enabled, setting, idleTimeout, timers)
       IN /\ idleTimeout' = r.idleTimeout
          /\ timers' = r.timers
    /\ quietFor' = Min(quiet, LongestElapsed(timers'))
    /\ cancelled' = (idleTimeout \in DOMAIN timers /\ idleTimeout \notin DOMAIN timers')
    /\ armedDelay' = RequestedTimeout(enabled, setting)
    /\ resetAge' = 0
    /\ fires' = 0

\* a step that does not touch the idle timer
NoReset == UNCHANGED <<idleTimeout, timers, cancelled, resetAge, armedDelay, fires>>

\* ------------------------------------------------------------------ Init
\* the plugin object as constructed: idleTimeout = null, autoCenterEnabled = true
Init ==
    /\ version \in Versions
    /\ phase = "constructed"
    /\ settings = Undefined
    /\ saving = 0
    /\ autoCenterEnabled = TRUE
    /\ idleTimeout = Null
    /\ timers = << >>
    /\ debounce = [pending |-> FALSE, elapsed |-> 0, calls |-> 0]
    /\ last = Step("new", FALSE)
    /\ cancelled = FALSE
    /\ quietFor = 0
    /\ resetAge = 0
    /\ armedDelay = 0
    /\ fires = 0
    /\ invokeAge = DEBOUNCE_DELAY_MS
    /\ firedSince = FALSE
    /\ editor = [doc |-> << << >> >>, anchor |-> Pos(0, 0), head |-> Pos(0, 0)]
    /\ cmd = "none"
    /\ before = editor

\* --------------------------------------------------------------- actions
\* onload: (0.1.2) await loadSettings(); register commands and listeners;
\* resetIdleTimer()
Onload ==
    /\ phase = "constructed"
    /\ phase' = "loaded"
    /\ \E data \in PersistedData :
         /\ settings' = IF version = "0.1.2" THEN LoadSettings(data) ELSE settings
         /\ CallReset(autoCenterEnabled, settings', quietFor)
    /\ last' = Step("onload", TRUE)
    /\ UNCHANGED <<version, saving, autoCenterEnabled, debounce, invokeAge, firedSince>>
    /\ UNCHANGED edVars

\* variant: the command flips the flag and does not call resetIdleTimer
ToggleNoReset ==
    /\ phase = "loaded"
    /\ autoCenterEnabled' = ~autoCenterEnabled
    /\ NoReset
    /\ last' = Step("toggle", FALSE)
    /\ UNCHANGED <<version, phase, settings, saving, debounce, quietFor, invokeAge, firedSince>>
    /\ UNCHANGED edVars

\* the toggle-auto-center-on-idle command
Toggle ==
    /\ phase = "loaded"
    /\ autoCenterEnabled' = ~autoCenterEnabled
    /\ CallReset(autoCenterEnabled', settings, quietFor)
    /\ last' = Step("toggle", TRUE)
    /\ UNCHANGED <<version, phase, settings, saving, debounce, invokeAge, firedSince>>
    /\ UNCHANGED edVars

\* a call of debounce(resetIdleTimer, DEBOUNCE_DELAY_MS, true) by an activity
\* signal: the timer of the debounced function is (re)started, resetIdleTimer
\* is not called
DebouncedCall(op) ==
    /\ debounce' = [pending |-> TRUE, elapsed |-> 0, calls |-> Min(debounce.calls + 1, 2)]
    /\ quietFor' = 0
    /\ NoReset
    /\ last' = Step(op, FALSE)
    /\ UNCHANGED invokeAge
    /\ firedSince' = FALSE

\* a call of resetIdleTimer, registered as the listener itself, by an
\* activity signal
DirectCall(op) ==
    /\ CallReset(autoCenterEnabled, settings, 0)
    /\ last' = Step(op, TRUE)
    /\ UNCHANGED <<debounce, invokeAge>>
    /\ firedSince' = FALSE

\* variant: resetIdleTimer itself is registered for 'editor-change'
EditorChangeDirect ==
    /\ phase = "loaded"
    /\ DirectCall("editor-change")
    /\ UNCHANGED <<version, phase, settings, saving, autoCenterEnabled>>
    /\ UNCHANGED edVars

\* 'editor-change': debounced in 0.1.2, direct in 0.1.1
EditorChange ==
    /\ phase = "loaded"
    /\ IF version = "0.1.2" THEN DebouncedCall("editor-change") ELSE DirectCall("editor-change")
    /\ UNCHANGED <<version, phase, settings, saving, autoCenterEnabled>>
    /\ UNCHANGED edVars

\* 0.1.1: 'active-leaf-change', keydown and mousedown call resetIdleTimer
DirectSignal ==
    /\ phase = "loaded"
    /\ version = "0.1.1"
    /\ \E op \in {"active-leaf-change", "keydown", "mousedown"} : DirectCall(op)
    /\ UNCHANGED <<version, phase, settings, saving, autoCenterEnabled>>
    /\ UNCHANGED edVars

\* 0.1.1: mousemove goes through the debounced function
MouseMove ==
    /\ phase = "loaded"
    /\ version = "0.1.1"
    /\ DebouncedCall("mousemove")
    /\ UNCHANGED <<version, phase, settings, saving, autoCenterEnabled>>
    /\ UNCHANGED edVars

\* variant: the timer of the debounced function expires and calls nothing
DebounceRunNoReset ==
    /\ debounce.pending
    /\ debounce.elapsed >= DEBOUNCE_DELAY_MS
    /\ debounce' = [pending |-> FALSE, elapsed |-> 0, calls |-> 0]
    /\ NoReset
    /\ last' = [Step("debounce-run", FALSE) EXCEPT !.served = debounce.calls, !.gap = invokeAge]
    /\ invokeAge' = 0
    /\ UNCHANGED <<version, phase, settings, saving, autoCenterEnabled, quietFor, firedSince>>
    /\ UNCHANGED edVars

\* the timer of the debounced function expires: resetIdleTimer runs.  The
\* timer belongs to the debounced function, not to the plugin: nothing in
\* onunload cancels it
DebounceRun ==
    /\ debounce.pending
    /\ debounce.elapsed >= DEBOUNCE_DELAY_MS
    /\ debounce' = [pending |-> FALSE, elapsed |-> 0, calls |-> 0]
    /\ CallReset(autoCenterEnabled, settings, quietFor)
    /\ last' = [Step("debounce-run", TRUE) EXCEPT !.served = debounce.calls, !.gap = invokeAge]
    /\ invokeAge' = 0
    /\ UNCHANGED firedSince
    /\ UNCHANGED <<version, phase, settings, saving, autoCenterEnabled>>
    /\ UNCHANGED edVars

\* slider onChange, up to the await: settings.idleTimeoutMs = value; saveSettings()
SliderChange ==
    /\ phase = "loaded"
    /\ version = "0.1.2"
    /\ saving < MaxSaves
    /\ \E value \in SliderValues : settings' = Num(value)
    /\ saving' = saving + 1
    /\ NoReset
    /\ last' = Step("slider", FALSE)
    /\ UNCHANGED <<version, phase, autoCenterEnabled, debounce, quietFor, invokeAge, firedSince>>
    /\ UNCHANGED edVars

\* slider onChange, after the await: resetIdleTimer()
SaveDone ==
    /\ saving > 0
    /\ saving' = saving - 1
    /\ CallReset(autoCenterEnabled, settings, quietFor)
    /\ last' = Step("save-done", TRUE)
    /\ UNCHANGED <<version, phase, settings, autoCenterEnabled, debounce, invokeAge, firedSince>>
    /\ UNCHANGED edVars

\* a due idle timer runs scrollActiveLineToCenter; idleTimeout keeps the handle
Fire ==
    /\ \E h \in Pending :
         /\ Due(timers[h])
         /\ timers' = ClearTimeout(timers, h)
         /\ last' = [Step("fire", FALSE) EXCEPT !.firedDelay = timers[h].delay]
    /\ fires' = Min(fires + 1, 2)
    /\ UNCHANGED <<version, phase, settings, saving, autoCenterEnabled, idleTimeout,
                   debounce, cancelled, quietFor, resetAge, armedDelay, invokeAge>>
    /\ firedSince' = TRUE
    /\ UNCHANGED edVars

\* onunload: if (this.idleTimeout) window.clearTimeout(this.idleTimeout)
Onunload ==
    /\ phase = "loaded"
    /\ phase' = "unloaded"
    /\ timers' = IF idleTimeout # Null THEN ClearTimeout(timers, idleTimeout) ELSE timers
    /\ cancelled' = (idleTimeout \in DOMAIN timers)
    /\ quietFor' = Min(quietFor, LongestElapsed(timers'))
    /\ last' = Step("onunload", FALSE)
    /\ UNCHANGED <<version, settings, saving, autoCenterEnabled, idleTimeout, debounce,
                   resetAge, armedDelay, fires, invokeAge, firedSince>>
    /\ UNCHANGED edVars

\* time passes by one quantum; a due callback waits at most MaxLate quanta
NotOverdue(t, delay) == t.elapsed < delay + MaxLate * Quantum

Advance ==
    /\ phase # "constructed"
    /\ \A h \in Pending : NotOverdue(timers[h], timers[h].delay)
    /\ debounce.pending => NotOverdue(debounce, DEBOUNCE_DELAY_MS)
    /\ timers' = [h \in Pending |-> [timers[h] EXCEPT !.elapsed = @ + Quantum]]
    /\ debounce' = IF debounce.pending
                   THEN [debounce EXCEPT !.elapsed = @ + Quantum]
                   ELSE debounce
    /\ quietFor' = Min(quietFor + Quantum, LongestElapsed(timers'))
    /\ resetAge' = Min(resetAge + Quantum, armedDelay)
    /\ invokeAge' = Min(invokeAge + Quantum, DEBOUNCE_DELAY_MS)
    /\ UNCHANGED firedSince
    /\ last' = Step("advance", FALSE)
    /\ UNCHANGED <<version, phase, settings, saving, autoCenterEnabled, idleTimeout,
                   cancelled, armedDelay, fires>>
    /\ UNCHANGED edVars

Next ==
    \/ Onload
    \/ Toggle
    \/ EditorChange
    \/ DirectSignal
    \/ MouseMove
    \/ DebounceRun
    \/ SliderChange
    \/ SaveDone
    \/ Fire
    \/ Onunload
    \/ Advance

Spec == Init /\ [][Next]_vars

\* the event loop runs a due callback and resumes the slider handler once
\* saveData has settled, and time passes
FairSpec ==
    Spec /\ WF_vars(Advance) /\ WF_vars(Fire) /\ WF_vars(DebounceRun) /\ WF_vars(SaveDone)

TypeOK ==
    /\ version \in Versions
    /\ phase \in {"constructed", "loaded", "unloaded"}
    /\ saving \in 0..MaxSaves
    /\ autoCenterEnabled \in BOOLEAN
    /\ idleTimeout \in Handles \cup {Null}
    /\ DOMAIN timers \subseteq Handles
    /\ firedSince \in BOOLEAN

\* ------------------------------------------------- editor specification
\* the documents the commands are run on: the line under test alone, or
\* after another line
Filler == <<"a">>
Docs == {<<l>> : l \in Lines} \cup {<<Filler, l>> : l \in Lines}
Positions(doc) ==
    {p \in {Pos(n, c) : n \in 0..(Len(doc) - 1), c \in 0..MaxLen} : p.ch <= Len(doc[p.line + 1])}
EndOfDoc(doc) == Pos(Len(doc) - 1, Len(doc[Len(doc)]))

\* the plugin loaded with the timeout stored as 0: the idle scheduler is at rest
IdleAtRest ==
    /\ version = "0.1.2"
    /\ phase = "loaded"
    /\ settings = Num(0)
    /\ saving = 0
    /\ autoCenterEnabled = TRUE
    /\ idleTimeout = Null
    /\ timers = << >>
    /\ debounce = [pending |-> FALSE, elapsed |-> 0, calls |-> 0]
    /\ last = Step("onload", TRUE)
    /\ cancelled = FALSE
    /\ quietFor = 0
    /\ resetAge = 0
    /\ armedDelay = 0
    /\ fires = 0
    /\ invokeAge = DEBOUNCE_DELAY_MS
    /\ firedSince = FALSE

EditorInit ==
    /\ IdleAtRest
    /\ \E doc \in Docs : \E head \in Positions(doc) :
         \E anchor \in {head, Pos(0, 0), EndOfDoc(doc)} :
            editor = [doc |-> doc, anchor |-> anchor, head |-> head]
    /\ cmd = "none"
    /\ before = editor

\* the host runs a command's editorCallback on the active editor
RunCommand(name, after) ==
    /\ editor' = after
    /\ cmd' = name
    /\ before' = editor
    /\ UNCHANGED idleVars

EmptyExceptMarkerCommand ==
    RunCommand("empty-current-line-content-except-marker", EmptyExceptMarker(editor))

ClearLineCommand ==
    RunCommand("clear-current-line-for-new-format", ClearLine(editor))

SelectOrCancelCommand ==
    RunCommand("select-current-line-or-cancel", SelectOrCancel(editor))

EditorNext ==
    \/ EmptyExceptMarkerCommand
    \/ ClearLineCommand
    \/ SelectOrCancelCommand

EditorSpec == EditorInit /\ [][EditorNext]_vars

\* ---------------------------------------------------------------- claims
Fired == last.op = "fire"

\* the step just taken was a signal that goes through the debounced function
Coalesced == (version = "0.1.2" /\ last.op = "editor-change") \/ last.op = "mousemove"

\* C1: whenever the centering callback fires, no activity signal occurred
\* within the timer's delay before it
C1_DebounceContract == Fired => quietFor >= last.firedDelay

\* C2: the centering callback never fires while settings.idleTimeoutMs is 0
C2_NeverFiresAtZero == Fired => settings # Num(0)

\* C3: while autoCenterEnabled is false no idle timer is pending and the
\* centering callback does not fire, whatever event came last
C3_NeverFiresDisabled == ~autoCenterEnabled => (Pending = {} /\ ~Fired)

\* a coalesced reset ran while auto-centering was switched off
C3_Witness == ~autoCenterEnabled /\ last.op = "debounce-run" /\ phase = "loaded"

\* C4: after onunload the centering callback never fires
C4_NoFireAfterUnload == Fired => phase # "unloaded"

\* C5: at most one idle timer is pending
C5_AtMostOnePending == Cardinality(Pending) <= 1

\* a reset cancelled a pending timer and scheduled another
C5_Witness == last.resetRan /\ cancelled /\ Cardinality(Pending) = 1

\* C6: the centering callback fires no earlier than the timeout after the
\* most recent reset, only if that reset had a timeout to arm, and once;
\* and a timer left counting down does fire, unless a further reset or
\* onunload comes first
C6_FiresOnceAfterTimeout ==
    /\ [](Fired => (armedDelay > 0 /\ resetAge >= armedDelay /\ fires = 1))
    /\ (Pending # {} /\ ~last.resetRan) ~> (Fired \/ last.resetRan \/ last.op = "onunload")

\* a reset replaced a timer that was still counting down, and the callback
\* fired once, a full timeout after that reset
C6_Witness ==
    /\ Fired
    /\ cancelled
    /\ fires = 1
    /\ armedDelay = SLIDER_STEP
    /\ resetAge = SLIDER_STEP

\* C7: after resetIdleTimer, if a timeout is to be armed exactly one timer is
\* pending, fresh, with that delay, and idleTimeout is its handle; otherwise
\* no timer is pending and idleTimeout is null
C7_ResetPostcondition ==
    last.resetRan =>
        IF RequestedTimeout(autoCenterEnabled, settings) > 0
        THEN /\ idleTimeout # Null
             /\ Pending = {idleTimeout}
             /\ timers[idleTimeout] =
                    [delay |-> RequestedTimeout(autoCenterEnabled, settings), elapsed |-> 0]
        ELSE Pending = {} /\ idleTimeout = Null

\* a reset found a timer pending and the timeout set to 0
C7_Witness == last.resetRan /\ cancelled /\ autoCenterEnabled /\ settings = Num(0)

\* C8 as stated: after a toggle a timer is pending exactly if it enabled
C8_ToggleAsStated == last.op = "toggle" => (Pending # {} <=> autoCenterEnabled)

\* C8 amended: after a toggle that disables no timer is pending; after one
\* that enables a timer is pending exactly if the timeout is greater than 0
C8_ToggleApplies ==
    last.op = "toggle" =>
        IF autoCenterEnabled
        THEN Pending # {} <=> (version = "0.1.1" \/ GtZero(settings))
        ELSE Pending = {}

\* the toggle enabled auto-centering while the timeout was 0
C8_Witness == last.op = "toggle" /\ autoCenterEnabled /\ settings = Num(0) /\ Pending = {}

\* C9: a coalesced signal does not call resetIdleTimer itself, and two calls
\* made by the debounced function are at least DEBOUNCE_DELAY_MS apart
C9_Coalescing ==
    /\ Coalesced => (~last.resetRan /\ debounce.pending)
    /\ last.op = "debounce-run" => last.gap >= DEBOUNCE_DELAY_MS

\* the debounced function called resetIdleTimer once for several signals
C9_Witness ==
    /\ last.op = "debounce-run"
    /\ version = "0.1.2"
    /\ last.served = 2
    /\ last.gap = DEBOUNCE_DELAY_MS
\* ------------------------------------------------------- editor claims
Emptied == cmd = "empty-current-line-content-except-marker"
\* the line the command was run on, before and after, and what the parser
\* makes of it
LineNo == before.head.line
LineBefore == GetLine(before, LineNo)
LineAfter == GetLine(editor, LineNo)
Found == MarkerMatch(LineBefore)
CursorAt(ch) == editor.head = Pos(LineNo, ch) /\ editor.anchor = Pos(LineNo, ch)

\* C10 as stated: a line that is not exactly its marker is cut down to the
\* marker, cursor after it; a line without marker is emptied, cursor at 0
C10_EmptyAsStated ==
    Emptied =>
        IF Found.found
        THEN LineBefore # Found.marker =>
                (LineAfter = Found.marker /\ CursorAt(Len(Found.marker)))
        ELSE LineAfter = << >> /\ CursorAt(0)

\* C10 amended: a line with something other than whitespace after its marker
\* is cut down to the marker, cursor after it; a line without marker is
\* emptied, cursor at 0
C10_EmptyExceptMarker ==
    Emptied =>
        IF Found.found
        THEN Trim(LineBefore) # Trim(Found.marker) =>
                (LineAfter = Found.marker /\ CursorAt(Len(Found.marker)))
        ELSE LineAfter = << >> /\ CursorAt(0)

\* an indented list item with content, on the second line, was cut down to
\* its marker
C10_Witness ==
    /\ Emptied
    /\ LineNo = 1
    /\ LineBefore = <<" ", "-", " ", "a">>
    /\ LineAfter = <<" ", "-", " ">>
    /\ CursorAt(3)

\* C11: run on a line that is exactly its marker, the command changes neither
\* the text nor the selection: the editor is as the command found it
C11_MarkerOnlyNoOp ==
    (Emptied /\ Found.found /\ LineBefore = Found.marker) => editor = before

\* the command was run with the cursor at the start of the second line, a
\* bare list marker, and with a selection reaching back to the first line
C11_Witness ==
    /\ Emptied
    /\ LineBefore = <<"-", " ">>
    /\ before.head = Pos(1, 0)
    /\ before.anchor = Pos(0, 0)
    /\ editor = before

\* a command run has handed the cursor's line to the marker pattern
Parsed ==
    \/ Emptied
    \/ cmd = "select-current-line-or-cancel" /\ ~SomethingSelected(before)

\* the lengths n for which the first n characters of s are: whitespace, then
\* one or more '#', or one '-' or '*', or one or more digits and a '.', then
\* one character of the set sp
MarkerEnds(s, sp) ==
    {n \in 1..Len(s) : \E w \in 0..(n - 1) :
        /\ \A j \in 1..w : s[j] \in {" ", "\t"}
        /\ s[n] \in sp
        /\ \/ n - w >= 2 /\ \A j \in (w + 1)..(n - 1) : s[j] = "#"
           \/ n - w = 2 /\ s[w + 1] \in {"-", "*"}
           \/ n - w >= 3 /\ s[n - 1] = "." /\ \A j \in (w + 1)..(n - 2) : s[j] = "1"}

\* the pattern matches exactly the lines that have such a prefix, and the
\* match is that prefix
ParserAgrees(sp) ==
    /\ Found.found <=> MarkerEnds(LineBefore, sp) # {}
    /\ Found.found =>
          /\ MarkerEnds(LineBefore, sp) = {Len(Found.marker)}
          /\ Found.marker = SubSeq(LineBefore, 1, Len(Found.marker))

\* C12 as stated: the marker ends with a space character
C12_ParserAsStated == Parsed => ParserAgrees({" "})

\* C12 amended: the marker ends with a whitespace character, space or other
C12_MarkerParser == Parsed => ParserAgrees({" ", "\t"})

\* an indented heading whose '#' is followed by a tab was cut down to its
\* marker
C12_Witness ==
    /\ Emptied
    /\ LineBefore = <<" ", "#", "\t", "a">>
    /\ Found.found
    /\ LineAfter = <<" ", "#", "\t">>

\* the select-current-line-or-cancel command has just run
Selected == cmd = "select-current-line-or-cancel"

\* C13: run with a selection, the command leaves a cursor at the later of the
\* selection's two ends; run without one, it leaves a selection from just
\* after the marker (column 0 without marker) to the end of the cursor's
\* line; the text of the document is unchanged either way
C13_SelectOrCancel ==
    Selected =>
        /\ editor.doc = before.doc
        /\ IF before.anchor # before.head
           THEN /\ editor.anchor = editor.head
                /\ editor.head \in {before.anchor, before.head}
                /\ ~PosLess(editor.head, before.anchor)
                /\ ~PosLess(editor.head, before.head)
           ELSE /\ editor.anchor = Pos(LineNo, IF Found.found THEN Len(Found.marker) ELSE 0)
                /\ editor.head = Pos(LineNo, Len(LineBefore))

\* the command was run with a bare cursor on a list item, on the second line,
\* and selected the item's text
C13_Witness ==
    /\ Selected
    /\ before.anchor = before.head
    /\ LineBefore = <<"-", " ", "a", "a">>
    /\ editor.anchor = Pos(1, 2)
    /\ editor.head = Pos(1, 4)

\* C14: what loadSettings leaves in settings.idleTimeoutMs is an integer
\* within the slider's limits, the stored one if it is such and the default
\* otherwise
C14_LoadedTimeoutValid ==
    (version = "0.1.2" /\ last.op = "onload") =>
        (settings.t = "number" /\ settings.n \in SLIDER_MIN..SLIDER_MAX)

\* the plugin is loaded, auto-centering is on with a timeout above 0, and the
\* step just taken was no activity signal, toggle, slider change or unload
Undisturbed ==
    /\ phase = "loaded"
    /\ autoCenterEnabled
    /\ version = "0.1.1" \/ GtZero(settings)
    /\ last.op \notin {"editor-change", "active-leaf-change", "keydown", "mousedown",
                       "mousemove", "toggle", "slider", "onunload"}

\* C15: if from some point on the plugin stays loaded and enabled with a
\* timeout above 0 and no further activity signal arrives, then the centering
\* callback runs after the last activity signal
C15_EventuallyFires == <>[]Undisturbed => <>[]firedSince

\* the callback has run after an activity signal whose debounced reset
\* replaced the timer armed by onload
C15_Witness ==
    /\ Fired
    /\ firedSince
    /\ cancelled
    /\ version = "0.1.2"
    /\ phase = "loaded"
    /\ autoCenterEnabled
    /\ settings = Num(SLIDER_STEP)
    /\ debounce.calls = 0
    /\ saving = 0
====
